---- MODULE Spec2Model ----
(***************************************************************************)
(* Model of src/Python/aws_utils.py (AWSSessionManager) and                *)
(* src/Python/config_utils.py (ConfigManager, setup_aws, init_config).     *)
(*                                                                         *)
(* Python values are modelled as strings; Python's None is the string      *)
(* "None".  A dict is a function whose DOMAIN is the set of keys present.  *)
(***************************************************************************)
EXTENDS Naturals, Sequences, FiniteSets, TLC

\* ------------------------------------------------------------------ bounds
\* Number of boto3.Session objects one run may construct.
MaxSessions == 2

\* ------------------------------------------------------------ Python values
None == "None"

\* Truthiness of a str / None / bool value.
Truthy(v) == v \notin {"None", "", "False"}

EmptyDict == [k \in {} |-> None]

\* dict.get(k): None when the key is absent.
Get(d, k) == IF k \in DOMAIN d THEN d[k] ELSE None

\* dict.get(k, default): the default is used only when the key is ABSENT.
GetDefault(d, k, default) == IF k \in DOMAIN d THEN d[k] ELSE default

\* a or b
Or(a, b) == IF Truthy(a) THEN a ELSE b

\* str.lower() on the values USE_KEYS takes in the model.
Lower(s) == IF s \in {"True", "TRUE", "true"} THEN "true"
            ELSE IF s \in {"False", "FALSE", "false"} THEN "false"
            ELSE IF s \in {"ERROR", "Error"} THEN "error"
            ELSE IF s \in {"DEBUG", "Debug"} THEN "debug" ELSE s

\* An optional dict argument (opt=None): either None or a dict.
NoneArg == [isNone |-> TRUE, d |-> EmptyDict]
DictArg(d) == [isNone |-> FALSE, d |-> d]

\* `if opt`: None and the empty dict are falsy.
TruthyArg(a) == ~a.isNone /\ DOMAIN a.d # {}

\* ------------------------------------------------------------------- state
VARIABLES
    _instance,   \* AWSSessionManager._instance is not None
    _opt,        \* AWSSessionManager._opt: the stored options dict
    _session,    \* AWSSessionManager._session: NoSession or a boto3.Session
    nextId,      \* identity of the next boto3.Session object constructed
    environ,     \* os.environ
    provider,    \* what the security-token service answers (the outside world)
    binding,     \* the injector's DictConfig binding (process-wide)
    _config_cache,  \* ConfigManager._config_cache of the application's manager
    cache_file,  \* the file at ConfigManager.CONFIG_CACHE_PATH
    cred_file,   \* the file at ConfigManager.CREDENTIALS_FILE
    setup_aws_opt,  \* the dict object that is setup_aws's default argument
    logger,      \* the module global `logger` of logging_utils (NoLogger until made)
    log_event_opt,  \* the dict object that is log_event's default argument
    caller_opt,  \* the options dict the application passes to log_event
    call         \* the last call made and what it returned or raised

\* ------------------------------------------------------- boto3 / botocore
\* self._session = None
NoSession == [id |-> 0, aws_access_key_id |-> None, aws_secret_access_key |-> None,
              aws_session_token |-> None, profile_name |-> None, region_name |-> None]

\* Profiles of the shared AWS config file; boto3.Session(profile_name=p) raises
\* ProfileNotFound for any other name.
KnownProfiles == {"dev"}

\* boto3.Session(aws_access_key_id=..., ..., profile_name=..., region_name=...):
\* the handle keeps exactly the arguments it was given.
Boto3Session(id, key, secret, token, profile, region) ==
    IF profile # None /\ profile \notin KnownProfiles
    THEN [raised |-> "ProfileNotFound", session |-> NoSession]
    ELSE [raised |-> "none",
          session |-> [id |-> id, aws_access_key_id |-> key,
                       aws_secret_access_key |-> secret, aws_session_token |-> token,
                       profile_name |-> profile, region_name |-> region]]

\* session.client("sts").get_caller_identity(): "ok", or the exception raised.
\* Explicit keys the service rejects give a ClientError; an ambient chain that
\* finds no credentials gives NoCredentialsError, which is a BotoCoreError and
\* not a ClientError.
GetCallerIdentity(session, p) ==
    IF session.id = 0 THEN "AttributeError"
    ELSE IF session.aws_access_key_id # None THEN p.keys
    ELSE p.ambient

\* ------------------------------------------------------ AWSSessionManager
\* The manager's class attributes as one value.
Mgr == [instance |-> _instance, opt |-> _opt, session |-> _session, next |-> nextId]

\* region = opt.get("region") if opt else self._opt.get("region") or os.getenv(...)
\* (Python parses this as  A if opt else (B or C)).
Region(self_opt, opt, env) ==
    IF TruthyArg(opt) THEN Get(opt.d, "region")
    ELSE Or(Get(self_opt, "region"), GetDefault(env, "AWS_DEFAULT_REGION", "us-east-2"))

UseKeys(env) == Lower(GetDefault(env, "USE_KEYS", "false")) = "true"

\* The branch of _create_session that fires.
Branch(self_opt, env) ==
    IF Truthy(Get(self_opt, "use_temp_creds")) THEN "opt_temp_creds"
    ELSE IF UseKeys(env)
         THEN IF Truthy(Get(env, "AWS_SESSION_TOKEN")) THEN "env_temp_creds" ELSE "env_keys"
    ELSE IF Truthy(GetDefault(self_opt, "profile", Get(env, "AWS_PROFILE"))) THEN "profile"
    ELSE "default"

\* _create_session: [raised, session]; on a raise self._session is not assigned.
_create_session(self_opt, opt, env, id) ==
    LET region == Region(self_opt, opt, env)
        b == Branch(self_opt, env)
    IN  CASE b = "opt_temp_creds" ->
               Boto3Session(id, Get(self_opt, "aws_access_key_id"),
                            Get(self_opt, "aws_secret_access_key"),
                            Get(self_opt, "aws_session_token"), None, region)
          [] b = "env_temp_creds" ->
               Boto3Session(id, Get(env, "AWS_ACCESS_KEY_ID"),
                            Get(env, "AWS_SECRET_ACCESS_KEY"),
                            Get(env, "AWS_SESSION_TOKEN"), None, region)
          [] b = "env_keys" ->
               Boto3Session(id, Get(env, "AWS_ACCESS_KEY_ID"),
                            Get(env, "AWS_SECRET_ACCESS_KEY"), None, None, region)
          [] b = "profile" ->
               Boto3Session(id, None, None, None,
                            GetDefault(self_opt, "profile", Get(env, "AWS_PROFILE")), region)
          [] OTHER ->
               Boto3Session(id, None, None, None, None, region)

\* Mutant: the identity check is skipped and the session taken as valid.
AlwaysValid(session, p) == "True"

\* _is_session_valid: "True", "False", or the name of the exception that escapes
\* (only ClientError and AttributeError are caught).
_is_session_valid(session, p) ==
    LET r == GetCallerIdentity(session, p)
    IN  IF r = "ok" THEN "True"
        ELSE IF r \in {"ClientError", "AttributeError"} THEN "False"
        ELSE r

\* self._create_session(opt); return self._session.  checked: the identity check
\* ran in this call; constructed: a boto3.Session was constructed in it.
Rebuild(m, opt, env, checked) ==
    LET c == _create_session(m.opt, opt, env, m.next)
    IN  IF c.raised # "none"
        THEN [m |-> m, ret |-> NoSession, raised |-> c.raised, checked |-> checked,
              constructed |-> FALSE]
        ELSE [m |-> [m EXCEPT !.session = c.session, !.next = m.next + 1],
              ret |-> c.session, raised |-> "none", checked |-> checked,
              constructed |-> TRUE]

\* get_session(opt): [m, ret, raised, checked]
get_session(m, opt, env, p) ==
    IF m.session.id = 0 THEN Rebuild(m, opt, env, FALSE)
    ELSE LET v == _is_session_valid(m.session, p)
         IN  IF v = "False" THEN Rebuild(m, opt, env, TRUE)
             ELSE IF v = "True"
                  THEN [m |-> m, ret |-> m.session, raised |-> "none", checked |-> TRUE,
                        constructed |-> FALSE]
             ELSE [m |-> m, ret |-> NoSession, raised |-> v, checked |-> TRUE,
                   constructed |-> FALSE]

\* Mutant: refresh goes through get_session and so keeps a valid session.
RefreshIfInvalid(m, opt, env, p) == get_session(m, opt, env, p)

\* refresh_session(opt)
refresh_session(m, opt, env, p) == Rebuild(m, opt, env, FALSE)

\* AWSSessionManager.__new__(cls, opt)
New(m, opt) == IF ~m.instance THEN [m EXCEPT !.instance = TRUE, !.opt = opt] ELSE m

\* AWSSessionManager.instance(opt): cls._opt = opt runs on every call.
instance(m, opt) ==
    LET m1 == IF ~m.instance THEN New(m, opt) ELSE m
    IN  [m1 EXCEPT !.opt = opt]

\* ------------------------------------------------- OmegaConf / YAML / files
\* A configuration tree is a dict.  A YAML document is the set of its
\* <<key, value>> lines, or text no parser accepts.
Unset == [set |-> FALSE, tree |-> EmptyDict]
Bound(t) == [set |-> TRUE, tree |-> t]

YamlDoc(pairs) == [wellformed |-> TRUE, pairs |-> pairs]
BadYaml == [wellformed |-> FALSE, pairs |-> {}]

\* OmegaConf.create(text) / the parse inside OmegaConf.load: [raised, tree].
\* The loader rejects text that is not YAML and mappings with a duplicate key.
ParseYaml(doc) ==
    LET keys == {pr[1] : pr \in doc.pairs}
    IN  IF ~doc.wellformed \/ \E a, b \in doc.pairs : a[1] = b[1] /\ a[2] # b[2]
        THEN [raised |-> "YAMLError", tree |-> EmptyDict]
        ELSE [raised |-> "none",
              tree |-> [k \in keys |-> (CHOOSE pr \in doc.pairs : pr[1] = k)[2]]]

\* OmegaConf.to_yaml(tree), as OmegaConf.save writes it: one line per key.
DumpYaml(tree) == YamlDoc({<<k, tree[k]>> : k \in DOMAIN tree})

NoFile == [exists |-> FALSE, doc |-> BadYaml]
FileOf(doc) == [exists |-> TRUE, doc |-> doc]

\* OmegaConf.load(path) on a file: [raised, tree]
LoadYamlFile(f) ==
    IF ~f.exists THEN [raised |-> "FileNotFoundError", tree |-> EmptyDict]
    ELSE ParseYaml(f.doc)

\* The credentials file: absent, or JSON text (a dict when it parses).
NoCredFile == [exists |-> FALSE, wellformed |-> FALSE, data |-> EmptyDict]
CredFileOf(d) == [exists |-> TRUE, wellformed |-> TRUE, data |-> d]
\* The file after open(..., 'w') when nothing was written: not JSON.
TruncatedCredFile == [exists |-> TRUE, wellformed |-> FALSE, data |-> EmptyDict]

\* dict.update
Update(d, e) == [k \in DOMAIN d \cup DOMAIN e |-> IF k \in DOMAIN e THEN e[k] ELSE d[k]]

\* dict with key k removed (os.environ.pop(k, None))
Pop(d, k) == [x \in DOMAIN d \ {k} |-> d[x]]

\* d[k] = v
Put(d, k, v) == (k :> v) @@ d

\* str(pathlib.Path(s)) on POSIX: repeated slashes collapse and a trailing
\* slash is dropped.
RECURSIVE PosixPath(_)
PosixPath(s) ==
    IF Len(s) < 2 THEN s
    ELSE IF SubSeq(s, 1, 2) = "//" THEN PosixPath(SubSeq(s, 2, Len(s)))
    ELSE IF Len(s) = 2 /\ SubSeq(s, 2, 2) = "/" THEN SubSeq(s, 1, 1)
    ELSE SubSeq(s, 1, 1) \o PosixPath(SubSeq(s, 2, Len(s)))

\* ------------------------------------------------------ the outside world
TreeDev == ("name" :> "dev") @@ ("region" :> "us-west-2")
TreeLocal == ("name" :> "local")

\* Files of the working directory that the local loader may be pointed at.
LocalFiles ==
    ("config/local.yaml" :> FileOf(DumpYaml(TreeLocal)))
    @@ ("config/broken.yaml" :> FileOf(BadYaml))

LocalFile(path) == IF path \in DOMAIN LocalFiles THEN LocalFiles[path] ELSE NoFile

\* Objects of the configuration bucket.
S3Objects ==
    (<<"cfg-bucket", "api/dev.yaml">> :> DumpYaml(TreeDev))
    @@ (<<"cfg-bucket", "api/broken.yaml">> :> BadYaml)

\* session.client("s3").get_object(Bucket, Key)["Body"].read().decode():
\* [raised, body].  The request is signed with the session's credentials, so it
\* fails as the identity check does; a missing object is a ClientError.
GetObject(session, p, bucket, key) ==
    LET auth == GetCallerIdentity(session, p)
    IN  IF auth # "ok" THEN [raised |-> auth, body |-> BadYaml]
        ELSE IF <<bucket, key>> \notin DOMAIN S3Objects
             THEN [raised |-> "ClientError", body |-> BadYaml]
        ELSE [raised |-> "none", body |-> S3Objects[<<bucket, key>>]]

\* ------------------------------------------------------------------ inject
\* inject.configure(config): raises InjectorException when an injector is
\* already configured; otherwise the binder binds DictConfig to the tree.
Configure(b, tree) ==
    IF b.set THEN [raised |-> "InjectorException", binding |-> b]
    ELSE [raised |-> "none", binding |-> Bound(tree)]

\* ----------------------------------------------------------- ConfigManager
\* The whole mutable state a call can touch, as one value.
Cur == [m |-> Mgr, environ |-> environ, binding |-> binding,
        config_cache |-> _config_cache, cache_file |-> cache_file,
        cred_file |-> cred_file, setup_aws_opt |-> setup_aws_opt]

\* What a ConfigManager method leaves behind: the state, what it returned
\* (result), the exception that escaped it (raised), the step whose exception it
\* caught and logged (failed), the loaders that ran, and whether
\* test_aws_credentials ran.
Out(st, result, raised, failed, loaders) ==
    [st |-> st, result |-> result, raised |-> raised, failed |-> failed,
     loaders |-> loaders, cred_tested |-> FALSE]

\* Mutant: the local loader catches nothing, so a missing or unparsable file
\* raises.
LoadConfigUncaught(st, config_file, disk) ==
    LET l == LoadYamlFile(LocalFile(config_file))
    IN  Out([st EXCEPT !.config_cache = Bound(l.tree)], None, l.raised, "none", {"local"})

\* load_config(config_file); disk is the outcome of writing the cache file.
load_config(st, config_file, disk) ==
    LET l == LoadYamlFile(LocalFile(config_file))
    IN  IF l.raised # "none" THEN Out(st, None, "none", "parse", {"local"})
        ELSE LET st1 == [st EXCEPT !.config_cache = Bound(l.tree)]
                 c == Configure(st1.binding, l.tree)
             IN  IF c.raised # "none" THEN Out(st1, None, "none", "bind", {"local"})
                 ELSE LET st2 == [st1 EXCEPT !.binding = c.binding]
                      IN  IF disk # "ok"
                          THEN Out(st2, None, "none", "cache_write", {"local"})
                          ELSE Out([st2 EXCEPT !.cache_file = FileOf(DumpYaml(l.tree))],
                                   None, "none", "none", {"local"})

\* load_config_from_dict(dict_config_template)
load_config_from_dict(st, template) ==
    LET st1 == [st EXCEPT !.config_cache = Bound(template)]
        c == Configure(st1.binding, template)
    IN  IF c.raised # "none" THEN Out(st1, None, "none", "bind", {"dict"})
        ELSE Out([st1 EXCEPT !.binding = c.binding], None, "none", "none", {"dict"})

\* load_config_from_s3(bucket, config_file, save_cache)
load_config_from_s3(st, bucket, config_file, save_cache, p, disk) ==
    LET g == get_session(instance(st.m, EmptyDict), NoneArg, st.environ, p)
        st1 == [st EXCEPT !.m = g.m]
    IN  IF g.raised # "none" THEN Out(st1, None, "none", "session", {"s3"})
        ELSE LET o == GetObject(g.ret, p, bucket, config_file)
             IN  IF o.raised # "none" THEN Out(st1, None, "none", "fetch", {"s3"})
        ELSE LET y == ParseYaml(o.body)
             IN  IF y.raised # "none" THEN Out(st1, None, "none", "parse", {"s3"})
        ELSE LET st2 == [st1 EXCEPT !.config_cache = Bound(y.tree)]
                 c == Configure(st2.binding, y.tree)
             IN  IF c.raised # "none" THEN Out(st2, None, "none", "bind", {"s3"})
        ELSE LET st3 == [st2 EXCEPT !.binding = c.binding]
             IN  IF ~save_cache THEN Out(st3, None, "none", "none", {"s3"})
                 ELSE IF disk # "ok" THEN Out(st3, None, "none", "cache_write", {"s3"})
                 ELSE Out([st3 EXCEPT !.cache_file = FileOf(DumpYaml(y.tree))],
                          None, "none", "none", {"s3"})

\* load_default_config(): boot is config/default.yaml.  [none, bucket, file];
\* none means the function logged an error and returned None.
load_default_config(boot) ==
    IF ~boot.exists \/ ~boot.wellformed
           \/ {"current_environment", "downloadable_configs"} \ DOMAIN boot.tree # {}
    THEN [none |-> TRUE, bucket |-> None, file |-> None]
    ELSE LET environment == boot.tree["current_environment"]
         IN  IF environment \in boot.tree["downloadable_configs"]
             THEN IF {"s3_config_bucket", "s3_config_path"} \ DOMAIN boot.tree # {}
                  THEN [none |-> TRUE, bucket |-> None, file |-> None]
                  ELSE [none |-> FALSE, bucket |-> boot.tree["s3_config_bucket"],
                        file |-> PosixPath(boot.tree["s3_config_path"] \o "/"
                                           \o environment \o ".yaml")]
             ELSE [none |-> FALSE, bucket |-> None,
                   file |-> "config/" \o environment \o ".yaml"]

\* load_config_from_default(): unpacking a None result raises TypeError.
load_config_from_default(st, boot, p, disk) ==
    LET d == load_default_config(boot)
    IN  IF d.none THEN Out(st, None, "TypeError", "bootstrap", {"default"})
        ELSE LET r == IF d.bucket # None
                      THEN load_config_from_s3(st, d.bucket, d.file, TRUE, p, disk)
                      ELSE load_config(st, d.file, disk)
             IN  [r EXCEPT !.loaders = r.loaders \cup {"default"}]

\* load_aws_credentials(): the state after it.
load_aws_credentials(st) ==
    IF st.cred_file.exists /\ st.cred_file.wellformed
    THEN [st EXCEPT !.environ = Update(st.environ, st.cred_file.data)]
    ELSE st

\* Mutant: the cached load fails when the credentials file cannot be read.
LoadCachedNeedsCredentials(st) ==
    IF ~st.cache_file.exists \/ ~(st.cred_file.exists /\ st.cred_file.wellformed)
    THEN Out(st, "False", "none", "none", {})
    ELSE LET l == LoadYamlFile(st.cache_file)
             c == Configure(st.binding, l.tree)
         IN  IF l.raised # "none" \/ c.raised # "none"
             THEN Out(st, "False", "none", "bind", {})
             ELSE Out(load_aws_credentials([st EXCEPT !.config_cache = Bound(l.tree),
                                                      !.binding = c.binding]),
                      "True", "none", "none", {})

\* load_cached_config()
load_cached_config(st) ==
    IF ~st.cache_file.exists THEN Out(st, "False", "none", "none", {})
    ELSE LET l == LoadYamlFile(st.cache_file)
         IN  IF l.raised # "none" THEN Out(st, "False", "none", "parse", {})
        ELSE LET st1 == [st EXCEPT !.config_cache = Bound(l.tree)]
                 c == Configure(st1.binding, l.tree)
             IN  IF c.raised # "none" THEN Out(st1, "False", "none", "bind", {})
                 ELSE Out(load_aws_credentials([st1 EXCEPT !.binding = c.binding]),
                          "True", "none", "none", {})

\* test_aws_credentials()
test_aws_credentials(st, p) ==
    LET g == get_session(instance(st.m, EmptyDict), NoneArg, st.environ, p)
        st1 == [st EXCEPT !.m = g.m]
        ok == g.raised = "none" /\ GetCallerIdentity(g.ret, p) = "ok"
    IN  [Out(st1, IF ok THEN "True" ELSE "False", "none",
             IF ok THEN "none" ELSE "credentials", {}) EXCEPT !.cred_tested = TRUE]

\* Mutant: the credential test runs first, whatever the cached load returns.
EnsureCredentialsFirst(st, p) ==
    LET t == test_aws_credentials(st, p)
        c == load_cached_config(t.st)
        ok == c.result = "True" /\ t.result = "True"
    IN  [st |-> c.st, result |-> None, raised |-> IF ok THEN "none" ELSE "Exception",
         failed |-> c.failed, loaders |-> {}, cred_tested |-> TRUE,
         cached |-> c.result, cred |-> t.result]

\* ensure_config_loaded()
ensure_config_loaded(st, p) ==
    LET c == load_cached_config(st)
        E(r, raised, cred) ==
            [st |-> r.st, result |-> None, raised |-> raised, failed |-> r.failed,
             loaders |-> r.loaders, cred_tested |-> r.cred_tested,
             cached |-> c.result, cred |-> cred]
    IN  IF c.result # "True" THEN E(c, "Exception", "skipped")
        ELSE LET t == test_aws_credentials(c.st, p)
             IN  IF t.result # "True" THEN E(t, "Exception", t.result)
                 ELSE E(t, "none", t.result)

\* clear_cache()
clear_cache(st) == [st EXCEPT !.cache_file = NoFile]

\* reset_aws_credentials(); inp are the four lines read from standard input,
\* already stripped.  disk is the outcome of writing the credentials file: "ok",
\* "OSError" (open fails, the file is left alone) or "truncated" (open has
\* emptied the file and the write fails).
CredKeys == <<"AWS_ACCESS_KEY_ID", "AWS_SECRET_ACCESS_KEY", "AWS_SESSION_TOKEN", "REGION">>

reset_aws_credentials(st, inp, disk) ==
    LET popped == [k \in DOMAIN st.environ \ {CredKeys[i] : i \in 1..4} |-> st.environ[k]]
        st1 == [st EXCEPT !.environ = popped]
        credentials == [k \in {CredKeys[i] : i \in 1..4} |->
                           inp[CHOOSE i \in 1..4 : CredKeys[i] = k]]
    IN  IF inp[1] = "" \/ inp[2] = "" \/ inp[3] = ""
        THEN Out(st1, None, "none", "ValueError", {})
        ELSE LET st2 == [st1 EXCEPT !.environ = Update(popped, credentials)]
             IN  IF disk = "truncated"
                 THEN Out([st2 EXCEPT !.cred_file = TruncatedCredFile],
                          None, "none", "cache_write", {})
                 ELSE IF disk # "ok" THEN Out(st2, None, "none", "cache_write", {})
                 ELSE Out([st2 EXCEPT !.cred_file = CredFileOf(credentials)],
                          None, "none", "none", {})

\* add_attribute(key, opt): a key already present is left alone; an absent one is
\* set from the bound configuration tree, or to None.
add_attribute(key, opt, b) ==
    IF key \in DOMAIN opt THEN opt
    ELSE Put(opt, key, IF b.set /\ key \in DOMAIN b.tree THEN b.tree[key] ELSE None)

\* setup_aws(opt): [st, ret, raised].  arg.isNone means the call passed no
\* opt, so the function's default dict object is used (and mutated).
setup_aws(st, arg, p) ==
    LET opt == add_attribute("region", IF arg.isNone THEN st.setup_aws_opt ELSE arg.d,
                             st.binding)
        st1 == IF arg.isNone THEN [st EXCEPT !.setup_aws_opt = opt] ELSE st
        g == get_session(instance(st1.m, opt), NoneArg, st1.environ, p)
    IN  [st |-> [st1 EXCEPT !.m = g.m], ret |-> g.ret, raised |-> g.raised,
         checked |-> g.checked, constructed |-> g.constructed]

\* Mutant: no validation; whatever the method and arguments, the default loader
\* runs.
InitConfigAlwaysDefault(st, method, kwargs, boot, p, disk) ==
    LET r == load_config_from_default([st EXCEPT !.config_cache = Unset], boot, p, disk)
    IN  [st |-> [r.st EXCEPT !.config_cache = st.config_cache], result |-> r.result,
         raised |-> r.raised, failed |-> r.failed, loaders |-> r.loaders,
         dispatched |-> "default"]

\* init_config(method, **kwargs): config_manager is a fresh ConfigManager that
\* is dropped when the function returns.  dispatched is the entry of
\* config_types that was called.
init_config(st, method, kwargs, boot, p, disk) ==
    LET st0 == [st EXCEPT !.config_cache = Unset]
        Done(r, d) == [st |-> [r.st EXCEPT !.config_cache = st.config_cache],
                       result |-> r.result, raised |-> r.raised, failed |-> r.failed,
                       loaders |-> r.loaders, dispatched |-> d]
        ValueError == Done(Out(st0, None, "ValueError", "none", {}), "none")
    IN  IF method = "s3"
        THEN IF {"bucket", "config_file"} \subseteq DOMAIN kwargs
             THEN Done(load_config_from_s3(st0, kwargs["bucket"], kwargs["config_file"],
                                           GetDefault(kwargs, "save_cache", TRUE), p, disk),
                       "s3")
             ELSE ValueError
        ELSE IF method = "local"
        THEN IF "config_file" \in DOMAIN kwargs
             THEN Done(load_config(st0, kwargs["config_file"], disk), "local")
             ELSE ValueError
        ELSE IF method = "dict"
        THEN IF "dict_config_template" \in DOMAIN kwargs
             THEN Done(load_config_from_dict(st0, kwargs["dict_config_template"]), "dict")
             ELSE ValueError
        ELSE IF method = "default"
        THEN Done(load_config_from_default(st0, boot, p, disk), "default")
        ELSE ValueError

\* ----------------------------------------------------------------- logging
\* dict.setdefault(k, v)
SetDefault(d, k, v) == IF k \in DOMAIN d THEN d ELSE Put(d, k, v)

\* 'logger' not in globals()
NoLogger == [name |-> None, level |-> 0, handlers |-> 0]

\* Numeric values of the logging levels.
LevelNo == ("debug" :> 10) @@ ("info" :> 20) @@ ("warning" :> 30) @@ ("error" :> 40)

\* make_logger(name, opt): [logger, opt].  The logger is made at level INFO,
\* does not propagate, and has a console handler only if opt['local_only'] is
\* truthy once add_attribute has filled the key in.
make_logger(name, opt, b) ==
    LET o == add_attribute("local_only", opt, b)
    IN  [logger |-> [name |-> name, level |-> LevelNo["info"],
                     handlers |-> IF Truthy(o["local_only"]) THEN 1 ELSE 0],
         opt |-> o]

\* logger.error / logger.debug / logger.info: [records, stderr].  A record is
\* made only at or above the logger's level; it goes to the logger's handlers,
\* or, when there are none, to logging.lastResort (stderr, WARNING and above).
LoggerCall(g, method, text, tags) ==
    IF LevelNo[method] < g.level THEN [records |-> <<>>, stderr |-> 0]
    ELSE [records |-> << [chan |-> "logger", level |-> method, text |-> text,
                          tags |-> tags] >>,
          stderr |-> IF g.handlers > 0 THEN g.handlers
                     ELSE IF LevelNo[method] >= LevelNo["warning"] THEN 1 ELSE 0]

\* Mutant: a verbose call is always silenced, whatever the options hold.
ShortCircuitAlways(opt, is_verbose) == is_verbose

\* The short-circuit test of log_event.
ShortCircuit(opt, is_verbose) ==
    is_verbose /\ ("verbose" \in DOMAIN opt /\ ~Truthy(opt["verbose"]))

\* log_event(message, level, opt, is_verbose) called from frame `caller` at
\* time `now`, with global logger g: [logger, opt, outputs, emitted, stderr].
\* outputs counts the print / logger-method calls made, emitted holds the
\* records and standard-output lines that came out of them.
log_event(g, message, level, opt, is_verbose, caller, now, b) ==
    IF ShortCircuit(opt, is_verbose)
    THEN [logger |-> g, opt |-> opt, outputs |-> 0, emitted |-> <<>>, stderr |-> 0]
    ELSE
    LET mk == IF g = NoLogger THEN make_logger("logging_utils.py", opt, b)
              ELSE [logger |-> g, opt |-> opt]
        o1 == SetDefault(SetDefault(mk.opt, "job_id", "null"), "user_email", "null")
        o2 == add_attribute("name_space", o1, b)
        tags == [environment |-> o2["name_space"], user_id |-> o2["user_email"],
                 job_id |-> o2["job_id"], function |-> caller.function]
        o3 == SetDefault(SetDefault(o2, caller.function \o "_start_time", now),
                         "full_search_start_time", now)
        method == IF Lower(level) = "error" THEN "error"
                  ELSE IF Lower(level) = "debug" THEN "debug" ELSE "info"
        text == IF method = "info" THEN caller.file \o " - " \o message
                ELSE caller.function \o " - " \o caller.lineno \o " - " \o message
        lc == LoggerCall(mk.logger, method, text, tags)
    IN  IF o3["name_space"] = "pytest"
        THEN [logger |-> mk.logger, opt |-> o3, outputs |-> 1,
              emitted |-> << [chan |-> "stdout", level |-> "none",
                              text |-> caller.file \o " - " \o caller.function \o " - "
                                       \o caller.lineno \o " - " \o message,
                              tags |-> EmptyDict] >>,
              stderr |-> 0]
        ELSE [logger |-> mk.logger, opt |-> o3, outputs |-> 1,
              emitted |-> lc.records, stderr |-> lc.stderr]

\* ------------------------------------------------------------ input sets
TempCreds == ("use_temp_creds" :> "True") @@ ("aws_access_key_id" :> "optkey")
             @@ ("aws_secret_access_key" :> "optsecret") @@ ("aws_session_token" :> "opttoken")

\* Options a caller stores with instance(opt=...) or passes to setup_aws.
StoredOpts ==
    { EmptyDict,
      ("region" :> "eu-west-1"),
      ("region" :> None),
      ("profile" :> "dev"),
      ("profile" :> None),
      ("profile" :> "ghost") @@ ("region" :> "eu-west-1"),
      TempCreds }

\* The opt argument of get_session / refresh_session.
CallOpts ==
    { NoneArg,
      DictArg(EmptyDict),
      DictArg(("region" :> "ap-south-1")),
      DictArg(("profile" :> "dev")),
      DictArg(TempCreds) }

\* Environment variables the session manager reads, and the values they take.
EnvValues ==
    ("USE_KEYS" :> {"True"}) @@ ("AWS_SESSION_TOKEN" :> {"envtoken"})
    @@ ("AWS_PROFILE" :> {"dev"}) @@ ("AWS_DEFAULT_REGION" :> {"us-west-1"})

BaseEnv == ("AWS_ACCESS_KEY_ID" :> "envkey") @@ ("AWS_SECRET_ACCESS_KEY" :> "envsecret")

\* The environment a process starts with.
StartEnvs == {BaseEnv, Put(BaseEnv, "USE_KEYS", "True")}

Providers == [keys : {"ok", "ClientError"}, ambient : {"ok", "NoCredentialsError"}]

DiskOutcomes == {"ok", "OSError"}

LocalPaths == {"config/local.yaml", "config/missing.yaml"}

S3Keys == {"api/dev.yaml", "api/broken.yaml"}

\* The opt argument of setup_aws (NoneArg: the default dict is used).
SetupOpts == {NoneArg, DictArg(("region" :> "eu-west-1")), DictArg(TempCreds)}

TreeInline == ("name" :> "inline")

\* config/default.yaml as the default loader may find it.
BootFile(tree) == [exists |-> TRUE, wellformed |-> TRUE, tree |-> tree]
NoBoot == [exists |-> FALSE, wellformed |-> FALSE, tree |-> EmptyDict]

Boots ==
    { NoBoot,
      [exists |-> TRUE, wellformed |-> FALSE, tree |-> EmptyDict],
      BootFile(("current_environment" :> "dev")),
      BootFile(("current_environment" :> "dev") @@ ("downloadable_configs" :> {"dev", "prod"})
               @@ ("s3_config_bucket" :> "cfg-bucket") @@ ("s3_config_path" :> "api")),
      BootFile(("current_environment" :> "local") @@ ("downloadable_configs" :> {"dev", "prod"})
               @@ ("s3_config_bucket" :> "cfg-bucket") @@ ("s3_config_path" :> "api")) }

\* init_config(method, **kwargs) calls.
InitArgs ==
    [method : {"s3", "yaml"},
     kwargs : { ("bucket" :> "cfg-bucket"),
                ("bucket" :> "cfg-bucket") @@ ("config_file" :> "api/dev.yaml"),
                ("bucket" :> "cfg-bucket") @@ ("config_file" :> "api/dev.yaml")
                    @@ ("save_cache" :> FALSE) },
     boot : {NoBoot}]
    \cup
    [method : {"local"},
     kwargs : { ("bucket" :> "cfg-bucket"), ("config_file" :> "config/local.yaml") },
     boot : {NoBoot}]
    \cup
    [method : {"dict"},
     kwargs : { EmptyDict, ("dict_config_template" :> TreeInline) },
     boot : {NoBoot}]
    \cup
    [method : {"default"}, kwargs : {EmptyDict}, boot : Boots]

\* The lines reset_aws_credentials reads from standard input.
ResetInputs == { <<"newkey", "newsecret", "newtoken", "eu-west-1">>,
                 <<"newkey", "", "newtoken", "eu-west-1">> }

\* log_event inputs: the options mappings an application passes, the levels,
\* the calling frames, the clock.
LogOpts ==
    { EmptyDict,
      ("verbose" :> "True"),
      ("verbose" :> "False"),
      ("verbose" :> None),
      ("verbose" :> "False") @@ ("name_space" :> "pytest"),
      ("name_space" :> "pytest"),
      ("local_only" :> "True") @@ ("verbose" :> "False"),
      ("job_id" :> "j1") @@ ("user_email" :> "u@x.org") @@ ("name_space" :> "dev") }

Levels == {"info", "ERROR", "debug"}

Callers == { [file |-> "app.py", function |-> "run", lineno |-> "42"] }

Times == {"t1", "t2"}

TreePytest == ("name_space" :> "pytest") @@ ("local_only" :> "True")

vars == <<_instance, _opt, _session, nextId, environ, provider, binding,
          _config_cache, cache_file, cred_file, setup_aws_opt, logger,
          log_event_opt, caller_opt, call>>

logvars == <<logger, log_event_opt, caller_opt>>

\* Assign the state a call leaves behind.
SetMgr(m) ==
    /\ _instance' = m.instance
    /\ _opt' = m.opt
    /\ _session' = m.session
    /\ nextId' = m.next

SetState(st) ==
    /\ SetMgr(st.m)
    /\ environ' = st.environ
    /\ binding' = st.binding
    /\ _config_cache' = st.config_cache
    /\ cache_file' = st.cache_file
    /\ cred_file' = st.cred_file
    /\ setup_aws_opt' = st.setup_aws_opt
    /\ UNCHANGED logvars

NoCall == [op |-> "none", arg |-> NoneArg, checked |-> FALSE, constructed |-> FALSE,
           ret |-> NoSession,
           raised |-> "none", result |-> None, failed |-> "none", loaders |-> {},
           dispatched |-> "none", cred_tested |-> FALSE, cached |-> None,
           cred |-> None, outputs |-> 0, emitted |-> <<>>, stderr |-> 0]

\* The call record of a ConfigManager method.
CfgCall(op, arg, r) ==
    [NoCall EXCEPT !.op = op, !.arg = arg, !.raised = r.raised, !.result = r.result,
                   !.failed = r.failed, !.loaders = r.loaders,
                   !.cred_tested = r.cred_tested]

\* A process starts: nothing bound, no singleton, no manager state.
Init ==
    /\ _instance = FALSE
    /\ _opt = EmptyDict
    /\ _session = NoSession
    /\ nextId = 1
    /\ environ \in StartEnvs
    /\ provider \in Providers
    /\ binding = Unset
    /\ _config_cache = Unset
    /\ cache_file = NoFile
    /\ cred_file = NoCredFile
    /\ setup_aws_opt = EmptyDict
    /\ logger = NoLogger
    /\ log_event_opt = EmptyDict
    /\ caller_opt = EmptyDict
    /\ call = NoCall

cfgvars == <<binding, _config_cache, cache_file, cred_file, setup_aws_opt, logvars>>

\* ------------------------------------------------- actions: session manager
\* AWSSessionManager.instance(opt=d)
DoInstance(d) ==
    /\ SetMgr(instance(Mgr, d))
    /\ call' = [NoCall EXCEPT !.op = "instance", !.arg = DictArg(d)]
    /\ UNCHANGED <<environ, provider, cfgvars>>

\* get_session(opt) on the singleton
DoGetSession(opt) ==
    /\ _instance
    /\ nextId <= MaxSessions
    /\ \E r \in {get_session(Mgr, opt, environ, provider)} :
           /\ SetMgr(r.m)
           /\ call' = [NoCall EXCEPT !.op = "get_session", !.arg = opt,
                                     !.checked = r.checked, !.ret = r.ret,
                                     !.raised = r.raised,
                                     !.constructed = r.constructed]
    /\ UNCHANGED <<environ, provider, cfgvars>>

\* refresh_session(opt) on the singleton
DoRefreshSession(opt) ==
    /\ _instance
    /\ nextId <= MaxSessions
    /\ \E r \in {refresh_session(Mgr, opt, environ, provider)} :
           /\ SetMgr(r.m)
           /\ call' = [NoCall EXCEPT !.op = "refresh_session", !.arg = opt,
                                     !.checked = r.checked, !.ret = r.ret,
                                     !.raised = r.raised,
                                     !.constructed = r.constructed]
    /\ UNCHANGED <<environ, provider, cfgvars>>

\* The process environment changes (os.environ[k] = v).
SetEnv(k, v) ==
    /\ environ' = Put(environ, k, v)
    /\ environ' # environ
    /\ call' = NoCall
    /\ UNCHANGED <<_instance, _opt, _session, nextId, provider, cfgvars>>

\* del os.environ[k]
UnsetEnv(k) ==
    /\ k \in DOMAIN environ
    /\ environ' = Pop(environ, k)
    /\ call' = NoCall
    /\ UNCHANGED <<_instance, _opt, _session, nextId, provider, cfgvars>>

\* The outside world changes: credentials expire or are renewed, the ambient
\* credential chain gains or loses its credentials.
ProviderChange(p) ==
    /\ p # provider
    /\ provider' = p
    /\ call' = NoCall
    /\ UNCHANGED <<_instance, _opt, _session, nextId, environ, cfgvars>>

SessionNext ==
    \/ \E d \in StoredOpts : DoInstance(d)
    \/ \E o \in CallOpts : DoGetSession(o)
    \/ \E o \in CallOpts : DoRefreshSession(o)
    \/ \E k \in DOMAIN EnvValues : \E v \in EnvValues[k] : SetEnv(k, v)
    \/ \E k \in DOMAIN EnvValues : UnsetEnv(k)
    \/ \E p \in Providers : ProviderChange(p)

SessionSpec == Init /\ [][SessionNext]_vars

\* --------------------------------------------------- actions: configuration
\* config_manager.load_config(path) on the application's manager
DoLoadConfig(path, disk) ==
    /\ \E r \in {load_config(Cur, path, disk)} :
           SetState(r.st) /\ call' = CfgCall("load_config", path, r)
    /\ UNCHANGED provider

\* config_manager.load_config_from_dict(template)
DoLoadConfigFromDict(template) ==
    /\ \E r \in {load_config_from_dict(Cur, template)} :
           SetState(r.st) /\ call' = CfgCall("load_config_from_dict", template, r)
    /\ UNCHANGED provider

\* config_manager.load_config_from_s3(bucket, key, save_cache)
DoLoadConfigFromS3(key, save_cache, disk) ==
    /\ nextId <= MaxSessions
    /\ \E r \in {load_config_from_s3(Cur, "cfg-bucket", key, save_cache, provider, disk)} :
           /\ SetState(r.st)
           /\ call' = CfgCall("load_config_from_s3",
                              [key |-> key, save_cache |-> save_cache], r)
    /\ UNCHANGED provider

\* config_manager.load_config_from_default()
DoLoadConfigFromDefault(boot, disk) ==
    /\ nextId <= MaxSessions
    /\ \E r \in {load_config_from_default(Cur, boot, provider, disk)} :
           SetState(r.st) /\ call' = CfgCall("load_config_from_default", boot, r)
    /\ UNCHANGED provider

\* config_manager.load_cached_config()
DoLoadCachedConfig ==
    /\ \E r \in {load_cached_config(Cur)} :
           SetState(r.st) /\ call' = CfgCall("load_cached_config", NoneArg, r)
    /\ UNCHANGED provider

\* config_manager.load_aws_credentials()
DoLoadAwsCredentials ==
    /\ SetState(load_aws_credentials(Cur))
    /\ call' = [NoCall EXCEPT !.op = "load_aws_credentials"]
    /\ UNCHANGED provider

\* config_manager.test_aws_credentials()
DoTestAwsCredentials ==
    /\ nextId <= MaxSessions
    /\ \E r \in {test_aws_credentials(Cur, provider)} :
           SetState(r.st) /\ call' = CfgCall("test_aws_credentials", NoneArg, r)
    /\ UNCHANGED provider

\* config_manager.ensure_config_loaded()
DoEnsureConfigLoaded ==
    /\ nextId <= MaxSessions
    /\ \E r \in {ensure_config_loaded(Cur, provider)} :
           /\ SetState(r.st)
           /\ call' = [CfgCall("ensure_config_loaded", NoneArg, r)
                         EXCEPT !.cached = r.cached, !.cred = r.cred]
    /\ UNCHANGED provider

\* config_manager.clear_cache()
DoClearCache ==
    /\ SetState(clear_cache(Cur))
    /\ call' = [NoCall EXCEPT !.op = "clear_cache"]
    /\ UNCHANGED provider

\* config_manager.reset_aws_credentials() with inp typed at the prompts
DoResetAwsCredentials(inp, disk) ==
    /\ \E r \in {reset_aws_credentials(Cur, inp, disk)} :
           SetState(r.st) /\ call' = CfgCall("reset_aws_credentials", inp, r)
    /\ UNCHANGED provider

\* setup_aws(opt) / setup_aws()
DoSetupAws(arg) ==
    /\ nextId <= MaxSessions
    /\ \E r \in {setup_aws(Cur, arg, provider)} :
           /\ SetState(r.st)
           /\ call' = [NoCall EXCEPT !.op = "setup_aws", !.arg = arg,
                                     !.checked = r.checked, !.ret = r.ret,
                                     !.raised = r.raised,
                                     !.constructed = r.constructed]
    /\ UNCHANGED provider

\* init_config(method, **kwargs)
DoInitConfig(a, disk) ==
    /\ nextId <= MaxSessions
    /\ \E r \in {init_config(Cur, a.method, a.kwargs, a.boot, provider, disk)} :
           /\ SetState(r.st)
           /\ call' = [NoCall EXCEPT !.op = "init_config", !.arg = a,
                                     !.raised = r.raised, !.result = r.result,
                                     !.failed = r.failed, !.loaders = r.loaders,
                                     !.dispatched = r.dispatched]
    /\ UNCHANGED provider

\* The process exits and a new one starts: the files stay, everything held in
\* memory (singleton, binding, manager, environment changes) is gone.
Restart ==
    /\ _instance' = FALSE
    /\ _opt' = EmptyDict
    /\ _session' = NoSession
    /\ nextId' = 1
    /\ environ' \in StartEnvs
    /\ binding' = Unset
    /\ _config_cache' = Unset
    /\ setup_aws_opt' = EmptyDict
    /\ logger' = NoLogger
    /\ log_event_opt' = EmptyDict
    /\ caller_opt' = EmptyDict
    /\ call' = NoCall
    /\ UNCHANGED <<provider, cache_file, cred_file>>

\* The application makes itself an options mapping.
SetCallerOpt(d) ==
    /\ d # caller_opt
    /\ caller_opt' = d
    /\ call' = NoCall
    /\ UNCHANGED <<_instance, _opt, _session, nextId, environ, provider, binding,
                   _config_cache, cache_file, cred_file, setup_aws_opt, logger,
                   log_event_opt>>

\* log_event(message, level, opt, is_verbose); passed = FALSE is a call without
\* opt, which uses (and mutates) the default-argument dict.
DoLogEvent(level, passed, is_verbose, caller, now) ==
    /\ \E r \in {log_event(logger, "x", level, IF passed THEN caller_opt ELSE log_event_opt,
                           is_verbose, caller, now, binding)} :
           /\ logger' = r.logger
           /\ caller_opt' = IF passed THEN r.opt ELSE caller_opt
           /\ log_event_opt' = IF passed THEN log_event_opt ELSE r.opt
           /\ call' = [NoCall EXCEPT !.op = "log_event",
                                     !.arg = [level |-> level, passed |-> passed,
                                              is_verbose |-> is_verbose, caller |-> caller],
                                     !.outputs = r.outputs, !.emitted = r.emitted,
                                     !.stderr = r.stderr]
    /\ UNCHANGED <<_instance, _opt, _session, nextId, environ, provider, binding,
                   _config_cache, cache_file, cred_file, setup_aws_opt>>

ConfigNext ==
    \/ \E path \in LocalPaths, disk \in DiskOutcomes : DoLoadConfig(path, disk)
    \/ \E t \in {TreeInline} : DoLoadConfigFromDict(t)
    \/ \E key \in S3Keys, disk \in DiskOutcomes : DoLoadConfigFromS3(key, TRUE, disk)
    \/ \E key \in S3Keys : DoLoadConfigFromS3(key, FALSE, "ok")
    \/ \E boot \in Boots : DoLoadConfigFromDefault(boot, "ok")
    \/ DoLoadCachedConfig
    \/ DoTestAwsCredentials
    \/ DoEnsureConfigLoaded
    \/ DoClearCache
    \/ \E p \in Providers : ProviderChange(p)
    \/ Restart

ConfigSpec == Init /\ [][ConfigNext]_vars

\* The init_config entry point, beside the local loader and the cache clear
\* that give it every binding and cache state to start from.
InitConfigNext ==
    \/ \E a \in InitArgs : DoInitConfig(a, "ok")
    \/ \E path \in LocalPaths, disk \in DiskOutcomes : DoLoadConfig(path, disk)
    \/ DoClearCache
    \/ \E p \in Providers : ProviderChange(p)
    \/ Restart

InitConfigSpec == Init /\ [][InitConfigNext]_vars

\* The calls that store options and the calls that fetch the singleton without
\* any, side by side.
OptionsNext ==
    \/ \E arg \in SetupOpts : DoSetupAws(arg)
    \/ \E d \in StoredOpts : DoInstance(d)
    \/ \E o \in {NoneArg} : DoGetSession(o)
    \/ DoTestAwsCredentials
    \/ \E key \in {"api/dev.yaml"} : DoLoadConfigFromS3(key, TRUE, "ok")
    \/ \E p \in Providers : ProviderChange(p)
    \/ Restart

OptionsSpec == Init /\ [][OptionsNext]_vars

\* The credential cache: reset, reload, clear.
CredentialsNext ==
    \/ \E inp \in ResetInputs, disk \in DiskOutcomes \cup {"truncated"} :
           DoResetAwsCredentials(inp, disk)
    \/ DoLoadAwsCredentials
    \/ \E path \in {"config/local.yaml"} : DoLoadConfig(path, "ok")
    \/ \E t \in {TreeInline} : DoLoadConfigFromDict(t)
    \/ \E a \in {x \in InitArgs : x.method = "dict"} : DoInitConfig(a, "ok")
    \/ DoLoadCachedConfig
    \/ DoClearCache
    \/ DoTestAwsCredentials
    \/ \E p \in Providers : ProviderChange(p)
    \/ Restart

CredentialsSpec == Init /\ [][CredentialsNext]_vars

\* Logging, with the configuration tree bound or not.
LoggingNext ==
    \/ \E d \in LogOpts : SetCallerOpt(d)
    \/ \E level \in Levels, passed \in BOOLEAN, v \in BOOLEAN, c \in Callers, now \in Times :
           DoLogEvent(level, passed, v, c, now)
    \/ \E t \in {TreeInline, TreePytest} : DoLoadConfigFromDict(t)
    \/ Restart

\* Logging reads neither the credentials nor the token service: one start suffices.
LoggingInit == Init /\ environ = BaseEnv /\ provider = [keys |-> "ok", ambient |-> "ok"]

LoggingSpec == LoggingInit /\ [][LoggingNext]_vars

\* ------------------------------------------------------------------ claims
SessionCall == call.op \in {"get_session", "refresh_session"}

\* C1: a get_session call that finds a session whose identity check succeeds
\* returns that very handle and constructs nothing; one that finds a session
\* whose identity check fails constructs a new handle and returns it instead of
\* the old one (or propagates the construction failure).
C1_SingletonReuse ==
    [][(call'.op = "get_session" /\ _session.id # 0) =>
         IF GetCallerIdentity(_session, provider) = "ok"
         THEN call'.raised = "none" /\ ~call'.constructed /\ call'.ret = _session
         ELSE \/ /\ call'.raised = "none"
                 /\ call'.constructed
                 /\ call'.ret.id # _session.id
                 /\ _session' = call'.ret
              \/ call'.raised = "ProfileNotFound"]_vars

\* C2 as stated: every handle get_session returns normally passes the identity
\* check at the moment of return, a handle it has just constructed included.
C2_ReturnedHandleValid ==
    (call.op = "get_session" /\ call.raised = "none")
        => GetCallerIdentity(call.ret, provider) = "ok"

\* C2 amended: a handle get_session returns normally without having constructed
\* it in that call passed the identity check in that call and is valid at the
\* moment of return; a handle constructed in the call is the fresh object, stored
\* and returned as it is.
C2_ReusedHandleValid ==
    (call.op = "get_session" /\ call.raised = "none")
        => /\ call.ret = _session
           /\ call.ret.id # 0
           /\ IF call.constructed
              THEN call.ret.id = nextId - 1
              ELSE call.checked /\ GetCallerIdentity(call.ret, provider) = "ok"

C2_Witness ==
    /\ call.op = "get_session"
    /\ call.raised = "none"
    /\ ~call.constructed
    /\ call.checked
    /\ call.ret.id = 1

\* The credential material a handle carries.
Creds(session) == [aws_access_key_id |-> session.aws_access_key_id,
                   aws_secret_access_key |-> session.aws_secret_access_key,
                   aws_session_token |-> session.aws_session_token,
                   profile_name |-> session.profile_name]

\* The credential material C3 prescribes: first match of (1) temporary
\* credentials from the stored options, (2) environment keys, with the session
\* token when AWS_SESSION_TOKEN is set, (3) the profile named by the options or
\* else by AWS_PROFILE, (4) nothing (default provider chain).
C3_Prescribed(stored, env) ==
    LET profile == Or(Get(stored, "profile"), Get(env, "AWS_PROFILE"))
        none == [aws_access_key_id |-> None, aws_secret_access_key |-> None,
                 aws_session_token |-> None, profile_name |-> None]
    IN  IF Truthy(Get(stored, "use_temp_creds"))
        THEN [none EXCEPT !.aws_access_key_id = Get(stored, "aws_access_key_id"),
                          !.aws_secret_access_key = Get(stored, "aws_secret_access_key"),
                          !.aws_session_token = Get(stored, "aws_session_token")]
        ELSE IF UseKeys(env)
        THEN [none EXCEPT !.aws_access_key_id = Get(env, "AWS_ACCESS_KEY_ID"),
                          !.aws_secret_access_key = Get(env, "AWS_SECRET_ACCESS_KEY"),
                          !.aws_session_token = Get(env, "AWS_SESSION_TOKEN")]
        ELSE IF Truthy(profile) THEN [none EXCEPT !.profile_name = profile]
        ELSE none

\* C3: a constructed handle carries exactly the credential material of the first
\* matching branch, in the order options' temporary credentials, environment
\* keys, named profile (options, or else AWS_PROFILE), default chain.
C3_BranchSelection ==
    (SessionCall /\ call.constructed) => Creds(call.ret) = C3_Prescribed(_opt, environ)

\* The region C4 prescribes: per-call option, else stored option, else
\* AWS_DEFAULT_REGION, else "us-east-2".
C4_Prescribed(arg, stored, env) ==
    Or(Get(arg.d, "region"),
       Or(Get(stored, "region"), GetDefault(env, "AWS_DEFAULT_REGION", "us-east-2")))

\* C4: the region of a newly constructed session is the per-call option's region
\* if it has one, else the stored option's, else AWS_DEFAULT_REGION, else
\* "us-east-2"; it is never left unset.
C4_RegionFallback ==
    (SessionCall /\ call.constructed)
        => /\ call.ret.region_name = C4_Prescribed(call.arg, _opt, environ)
           /\ call.ret.region_name # None

\* C6: refresh_session runs no identity check and, whatever the session and its
\* validity, constructs the handle get_session would construct with no session
\* stored, stores it and returns it (or propagates the construction failure,
\* leaving the stored session alone); a get_session that then finds the stored
\* handle passing its identity check returns that same handle.
C6_RefreshRebuilds ==
    /\ [][call'.op = "refresh_session" =>
            LET fresh == get_session([Mgr EXCEPT !.session = NoSession], call'.arg,
                                     environ, provider)
            IN  /\ ~call'.checked
                /\ call'.raised = fresh.raised
                /\ IF call'.raised = "none"
                   THEN /\ call'.constructed
                        /\ call'.ret = fresh.ret
                        /\ call'.ret.id = nextId
                        /\ _session' = call'.ret
                   ELSE _session' = _session]_vars
    /\ [][(call.op = "refresh_session" /\ call.raised = "none"
           /\ call'.op = "get_session"
           /\ GetCallerIdentity(_session, provider) = "ok")
            => (call'.raised = "none" /\ call'.ret = call.ret)]_vars

C6_Witness ==
    /\ call.op = "refresh_session"
    /\ call.raised = "none"
    /\ call.ret.id = 2
    /\ call.ret = _session

\* C5: once the singleton holds options, a later call that fetches it without
\* passing options (load_config_from_s3, test_aws_credentials) leaves the stored
\* options in force: a session constructed afterwards is built from the same
\* credential flags, profile and region as one constructed before the call.
C5_StickyOptions ==
    [][(_instance /\ call'.op \in {"load_config_from_s3", "test_aws_credentials"})
         => _create_session(_opt', NoneArg, environ', 0)
              = _create_session(_opt, NoneArg, environ', 0)]_vars

\* The init_config calls that lack an argument their method needs, or name no
\* method.
C7_Invalid(a) ==
    \/ a.method = "s3" /\ ~({"bucket", "config_file"} \subseteq DOMAIN a.kwargs)
    \/ a.method = "local" /\ "config_file" \notin DOMAIN a.kwargs
    \/ a.method = "dict" /\ "dict_config_template" \notin DOMAIN a.kwargs
    \/ a.method \notin {"s3", "local", "dict", "default"}

\* C7: an init_config call with a missing argument or an unknown method raises a
\* value error, runs no loader and changes nothing (binding, cache file, session
\* singleton, environment); every other call invokes exactly the loader its
\* method names.
C7_ValidateBeforeDispatch ==
    [][call'.op = "init_config" =>
         IF C7_Invalid(call'.arg)
         THEN /\ call'.raised = "ValueError"
              /\ call'.dispatched = "none"
              /\ call'.loaders = {}
              /\ UNCHANGED <<binding, cache_file, cred_file, environ, _config_cache,
                             _instance, _opt, _session, nextId>>
         ELSE /\ call'.raised # "ValueError"
              /\ call'.dispatched = call'.arg.method
              /\ call'.arg.method \in call'.loaders
              /\ call'.loaders \subseteq
                   IF call'.arg.method = "default" THEN {"default", "s3", "local"}
                   ELSE {call'.arg.method}]_vars

C7_Witness ==
    /\ call.op = "init_config"
    /\ call.arg.method = "s3"
    /\ "config_file" \notin DOMAIN call.arg.kwargs
    /\ call.raised = "ValueError"
    /\ binding.set
    /\ cache_file.exists

\* C8: a load_cached_config that directly follows a load_config_from_s3 which
\* fetched, parsed, bound and cached a tree T returns true and leaves the
\* manager's tree and the binding equal to T.
C8_CacheRoundTrip ==
    [][(/\ call.op = "load_config_from_s3"
        /\ call.arg.save_cache
        /\ call.failed = "none"
        /\ call'.op = "load_cached_config")
         => LET T == ParseYaml(S3Objects[<<"cfg-bucket", call.arg.key>>]).tree
            IN  /\ call'.result = "True"
                /\ _config_cache' = Bound(T)
                /\ binding' = Bound(T)]_vars

LoaderCall(c) == c.op \in {"load_config_from_s3", "load_config"}

\* C9 as stated: the s3 and local loaders never raise, and after a call that
\* failed at any step the binding is what it was before the call.
C9_FailAtomically ==
    [][LoaderCall(call') =>
         /\ call'.raised = "none"
         /\ (call'.failed # "none" => binding' = binding)]_vars

\* C9 amended: the s3 and local loaders never raise; after a call that failed
\* at session resolution, fetch, parse or bind the binding is what it was before
\* the call; a call that fails at the cache write has already bound its new
\* tree, and that tree stays bound.
C9_FailAtomicallyBeforeBind ==
    [][LoaderCall(call') =>
         /\ call'.raised = "none"
         /\ call'.failed \in {"none", "session", "fetch", "parse", "bind", "cache_write"}
         /\ (call'.failed \in {"session", "fetch", "parse", "bind"} => binding' = binding)
         /\ (call'.failed = "cache_write" =>
               /\ ~binding.set
               /\ binding'.set
               /\ binding' = _config_cache'
               /\ cache_file' = cache_file)]_vars

C9_Witness ==
    /\ call.op = "load_config_from_s3"
    /\ call.failed = "bind"
    /\ binding.set
    /\ binding # _config_cache

\* C10: ensure_config_loaded returns normally exactly when load_cached_config
\* returns true and the credential test that follows it returns true, and
\* raises otherwise; when the cached load fails no credential validation runs
\* (the session singleton is untouched); no loader runs and no cache file is
\* written in any case.
C10_EnsureHardFailure ==
    [][call'.op = "ensure_config_loaded" =>
         LET c == load_cached_config(Cur)
             t == test_aws_credentials(c.st, provider)
         IN  /\ call'.raised \in {"none", "Exception"}
             /\ (call'.raised = "none") <=> (c.result = "True" /\ t.result = "True")
             /\ call'.cached = c.result
             /\ IF c.result = "True"
                THEN call'.cred_tested /\ call'.cred = t.result /\ _instance'
                ELSE /\ ~call'.cred_tested
                     /\ UNCHANGED <<_instance, _opt, _session, nextId>>
             /\ call'.loaders = {}
             /\ UNCHANGED <<cache_file, cred_file>>]_vars

C10_Witness ==
    /\ call.op = "ensure_config_loaded"
    /\ call.raised = "none"
    /\ call.cached = "True"
    /\ call.cred = "True"
    /\ binding.set


\* The options mapping a log_event call was given, before and after the call.
LogOptBefore == IF call'.arg.passed THEN caller_opt ELSE log_event_opt
LogOptAfter == IF call'.arg.passed THEN caller_opt' ELSE log_event_opt'

\* C11: a log_event call with is_verbose true and options holding verbose =
\* false emits no logger record and no standard-output line and leaves the
\* options mapping unchanged; every other call produces exactly one output, a
\* logger record or (test mode) a standard-output line.
C11_VerboseShortCircuit ==
    [][call'.op = "log_event" =>
         IF call'.arg.is_verbose /\ "verbose" \in DOMAIN LogOptBefore
                                 /\ LogOptBefore["verbose"] = "False"
         THEN call'.emitted = <<>> /\ LogOptAfter = LogOptBefore
         ELSE Len(call'.emitted) = 1]_vars

\* C11, as the code has it: the short-circuit is taken for any falsy verbose
\* value (false or null); every other call makes exactly one output call, which
\* yields one standard-output line in test mode and otherwise one logger record
\* unless the level is debug, which the logger (level INFO) discards.
C11_VerboseShortCircuitFalsy ==
    [][call'.op = "log_event" =>
         IF call'.arg.is_verbose /\ "verbose" \in DOMAIN LogOptBefore
                                 /\ LogOptBefore["verbose"] \in {"False", None}
         THEN /\ call'.outputs = 0 /\ call'.emitted = <<>> /\ call'.stderr = 0
              /\ LogOptAfter = LogOptBefore
              /\ logger' = logger
         ELSE /\ call'.outputs = 1
              /\ {"job_id", "user_email", "name_space"} \subseteq DOMAIN LogOptAfter
              /\ IF LogOptAfter["name_space"] = "pytest"
                 THEN Len(call'.emitted) = 1 /\ call'.emitted[1].chan = "stdout"
                 ELSE IF Lower(call'.arg.level) = "debug"
                 THEN call'.emitted = <<>>
                 ELSE Len(call'.emitted) = 1 /\ call'.emitted[1].chan = "logger"]_vars

\* A verbose call was silenced although the logger already existed and the
\* mapping held the verbose flag beside other keys.
C11_Witness ==
    /\ call.op = "log_event"
    /\ call.arg.is_verbose
    /\ call.arg.passed
    /\ call.outputs = 0
    /\ logger # NoLogger
    /\ "verbose" \in DOMAIN caller_opt /\ caller_opt["verbose"] = "False"
    /\ "job_id" \notin DOMAIN caller_opt


\* The mapping handed to the dict loader by a call, directly or through
\* init_config("dict", dict_config_template=...).
DictLoad(c) ==
    \/ c.op = "load_config_from_dict"
    \/ c.op = "init_config" /\ c.dispatched = "dict"

DictTemplate(c) ==
    IF c.op = "init_config" THEN c.arg.kwargs["dict_config_template"] ELSE c.arg

\* C12: load_config_from_dict, called directly or through init_config("dict"),
\* leaves the config cache file and the credentials file exactly as they were
\* and binds the tree built from the mapping.
C12_DictWritesNoCache ==
    [][DictLoad(call') =>
         /\ UNCHANGED <<cache_file, cred_file>>
         /\ binding' = Bound(DictTemplate(call'))]_vars


\* C13: when get_session(options) or refresh_session(options) constructs a
\* session and the options passed to the call request temporary credentials,
\* the handle carries the access key, secret key and session token of those
\* options, whatever the stored options hold.
C13_PerCallCredentials ==
    (/\ SessionCall
     /\ call.constructed
     /\ ~call.arg.isNone
     /\ Truthy(Get(call.arg.d, "use_temp_creds")))
        => /\ call.ret.aws_access_key_id = Get(call.arg.d, "aws_access_key_id")
           /\ call.ret.aws_secret_access_key = Get(call.arg.d, "aws_secret_access_key")
           /\ call.ret.aws_session_token = Get(call.arg.d, "aws_session_token")


\* C14: whatever way the identity check of the existing session fails (client
\* error, missing session, missing credentials), get_session treats the session
\* as invalid and constructs a new one; the only error it propagates is a
\* failure of the construction itself.
C14_CheckFailuresContained ==
    [][call'.op = "get_session" =>
         /\ call'.raised \in {"none", "ProfileNotFound"}
         /\ (_session.id = 0 \/ GetCallerIdentity(_session, provider) # "ok")
               => (call'.constructed \/ call'.raised = "ProfileNotFound")]_vars


\* What a loader call read: whether the source was reached and well formed,
\* and the tree it holds.  cache is the config cache file before the call.
SourceRead(c, cache) ==
    IF c.op = "load_config" THEN LoadYamlFile(LocalFile(c.arg))
    ELSE IF c.op = "load_config_from_dict" THEN [raised |-> "none", tree |-> c.arg]
    ELSE IF c.op = "load_config_from_s3"
    THEN IF c.failed \in {"session", "fetch"}
         THEN [raised |-> c.failed, tree |-> EmptyDict]
         ELSE ParseYaml(S3Objects[<<"cfg-bucket", c.arg.key>>])
    ELSE IF cache.exists THEN LoadYamlFile(cache)
    ELSE [raised |-> "FileNotFoundError", tree |-> EmptyDict]

\* C15: a loader call (s3, local, dict, cached reload) that reads a well-formed
\* source leaves the process-wide binding equal to the tree it read, whether or
\* not a tree was bound before the call.
C15_LoadReplacesBinding ==
    [][(/\ call'.op \in {"load_config", "load_config_from_dict",
                         "load_config_from_s3", "load_cached_config"}
        /\ SourceRead(call', cache_file).raised = "none")
         => binding' = Bound(SourceRead(call', cache_file).tree)]_vars


\* C16: after clear_cache neither the config cache file nor the credentials
\* file exists, so a load_cached_config that follows returns false and leaves
\* the environment alone.
C16_ClearRemovesBoth ==
    [][/\ call'.op = "clear_cache" =>
            cache_file' = NoFile /\ cred_file' = NoCredFile
       /\ (call.op = "clear_cache" /\ call'.op = "load_cached_config") =>
            call'.result = "False" /\ environ' = environ]_vars

\* A call of the default loader, directly or through init_config("default"),
\* and the bootstrap file it found.
DefaultLoad(c) ==
    \/ c.op = "load_config_from_default"
    \/ c.op = "init_config" /\ c.arg.method = "default"

DefaultBoot(c) == IF c.op = "init_config" THEN c.arg.boot ELSE c.arg

BootReadable(boot) ==
    /\ boot.exists /\ boot.wellformed
    /\ {"current_environment", "downloadable_configs"} \subseteq DOMAIN boot.tree
    /\ boot.tree["current_environment"] \in boot.tree["downloadable_configs"]
          => {"s3_config_bucket", "s3_config_path"} \subseteq DOMAIN boot.tree

\* The loader call C17 prescribes for a readable bootstrap file.
C17_Prescribed(st, boot, p) ==
    LET environment == boot.tree["current_environment"]
    IN  IF environment \in boot.tree["downloadable_configs"]
        THEN load_config_from_s3(st, boot.tree["s3_config_bucket"],
                                 boot.tree["s3_config_path"] \o "/" \o environment \o ".yaml",
                                 TRUE, p, "ok")
        ELSE load_config(st, "config/" \o environment \o ".yaml", "ok")

\* C17: the default loader never raises; with a missing, unparsable or
\* incomplete bootstrap file it returns with binding and cache unchanged; with
\* a readable one it invokes exactly one loader, s3 with the bootstrap's bucket
\* and "<s3_config_path>/<environment>.yaml" when the environment is
\* downloadable, else local with "config/<environment>.yaml".
C17_DefaultSoftFailure ==
    [][DefaultLoad(call') =>
         /\ call'.raised = "none"
         /\ IF BootReadable(DefaultBoot(call'))
            THEN LET r == C17_Prescribed(Cur, DefaultBoot(call'), provider)
                 IN  /\ call'.loaders = r.loaders \cup {"default"}
                     /\ binding' = r.st.binding
                     /\ cache_file' = r.st.cache_file
            ELSE UNCHANGED <<binding, cache_file>>]_vars

\* C18 as stated: load_cached_config returns true only if the credentials file
\* was read too and its variables restored.
C18_BothFilesRead ==
    [][(call'.op = "load_cached_config" /\ call'.result = "True") =>
         /\ cred_file.exists /\ cred_file.wellformed
         /\ environ' = Update(environ, cred_file.data)]_vars

\* C18, as the code has it: load_cached_config returns true exactly when the
\* config cache file exists, parses and is bound (nothing was bound before);
\* the credentials file is restored into the environment when it exists and
\* parses and is skipped otherwise, without effect on the result.
C18_ConfigFileDecides ==
    [][call'.op = "load_cached_config" =>
         LET l == LoadYamlFile(cache_file)
             ok == cache_file.exists /\ l.raised = "none" /\ ~binding.set
         IN  /\ (call'.result = "True") <=> ok
             /\ call'.raised = "none"
             /\ ok => binding' = Bound(l.tree)
             /\ environ' = IF ok /\ cred_file.exists /\ cred_file.wellformed
                           THEN Update(environ, cred_file.data) ELSE environ
             /\ UNCHANGED <<cache_file, cred_file>>]_vars

\* The cached load succeeded with no credentials file on disk.
C18_Witness ==
    /\ call.op = "load_cached_config"
    /\ call.result = "True"
    /\ ~cred_file.exists
    /\ binding.set

\* The four credential variables as the environment holds them.
EnvCreds(env) == [k \in {CredKeys[i] : i \in 1..4} \cap DOMAIN env |-> env[k]]

\* C19: after any reset_aws_credentials call, successful or failed, the four
\* credential variables of the environment equal the values stored in the
\* credentials file, so a load_aws_credentials that follows changes none.
C19_ResetKeepsAgreement ==
    (call.op = "reset_aws_credentials") =>
        /\ EnvCreds(environ) = (IF cred_file.exists THEN cred_file.data ELSE EmptyDict)
        /\ load_aws_credentials(Cur).environ = environ

====
